---- MODULE Spec2Model ----
(***************************************************************************)
(* Model of the schema-driven extraction and structuring engine of         *)
(* webform-cli: the schema loader, normalizer and validator                *)
(* (schemaLoader.ts), the field extractor, the type coercer and the        *)
(* formatter (extractor.ts), the renderer (output.ts) and the scrape and   *)
(* test commands (cli.ts).                                                 *)
(*                                                                         *)
(* JavaScript values are tagged records [k |-> tag, v |-> payload].        *)
(* A JavaScript string is the sequence of its characters, so that trim,    *)
(* includes, toLowerCase, concatenation and the comment regular expression  *)
(* are computed and not assumed.  Object keys are TLA+ strings; KeyChars    *)
(* spells the characters of the keys whose text the code inspects.         *)
(***************************************************************************)
EXTENDS Integers, Sequences, FiniteSets, TLC

VARIABLES pc, file, schema, loaded, renorm, doc, rawData, output,
    argv, validation, simpleSchema, reply, formatted, outputData, exitCode, llmCalls,
    fetchArgs, retries, attempt, lastError, requests, waits, response, reconverted

\* What the command handlers add to the state: the arguments, the result of
\* loadSchema, the reply of the language model, the result of
\* formatStructuredOutput, the data written out, the exit code and the number
\* of calls of the language model.
cliVars == <<argv, simpleSchema, reply, formatted, outputData, exitCode, llmCalls>>

\* The state of a call of fetchHTML: its arguments, its locals retries, attempt
\* and lastError, the outcomes of its requests in order, the times it waited
\* in milliseconds, and what it returned or raised.
fetchVars == <<fetchArgs, retries, attempt, lastError, requests, waits, response>>

\* reconverted: the result of coercing the result of a coercion again.
vars == <<pc, file, schema, loaded, renorm, doc, rawData, output, validation, cliVars, fetchVars, reconverted>>

(***************************************************************************)
(* Bounds of the model.                                                    *)
(***************************************************************************)
\* The largest number of document nodes one selector matches.
MaxNodes == 2

(***************************************************************************)
(* JavaScript values.                                                      *)
(***************************************************************************)
Undefined == [k |-> "undefined"]
Null == [k |-> "null"]
NaN == [k |-> "nan"]
Bool(b) == [k |-> "bool", v |-> b]
Num(n) == [k |-> "num", v |-> n]
Str(s) == [k |-> "str", v |-> s]
Arr(s) == [k |-> "arr", v |-> s]
Obj(f) == [k |-> "obj", v |-> f]
\* A raised exception, as the outcome of a call.
Throw(name) == [k |-> "throw", v |-> name]

IsThrow(x) == x.k = "throw"
IsStr(x) == x.k = "str"
IsObj(x) == x.k = "obj"
IsArr(x) == x.k = "arr"

\* The empty object {}.
EmptyMap == [n \in {} |-> Null]
EmptyObj == Obj(EmptyMap)

\* Marks a key left out of an object literal built by ObjOf.
Absent == [k |-> "absent"]
ObjOf(rec) == Obj([n \in {m \in DOMAIN rec : rec[m] # Absent} |-> rec[n]])

(***************************************************************************)
(* Characters and strings.                                                 *)
(***************************************************************************)
Digits == {"0", "1", "2", "3", "4", "5", "6", "7", "8", "9"}
Whitespace == {" ", "\t", "\n"}
UpperSeq == <<"A", "B", "C", "D", "E", "F", "G", "H", "I", "J", "K", "L", "M",
    "N", "O", "P", "Q", "R", "S", "T", "U", "V", "W", "X", "Y", "Z">>
LowerSeq == <<"a", "b", "c", "d", "e", "f", "g", "h", "i", "j", "k", "l", "m",
    "n", "o", "p", "q", "r", "s", "t", "u", "v", "w", "x", "y", "z">>

LowerOf ==
    [c \in {UpperSeq[i] : i \in 1..Len(UpperSeq)} |->
        LowerSeq[CHOOSE i \in 1..Len(UpperSeq) : UpperSeq[i] = c]]

LowerChar(c) == IF c \in DOMAIN LowerOf THEN LowerOf[c] ELSE c

\* String.prototype.toLowerCase
ToLowerCase(s) == [i \in 1..Len(s) |-> LowerChar(s[i])]

\* String.prototype.includes
Includes(s, sub) ==
    \E i \in 1..(Len(s) - Len(sub) + 1) : SubSeq(s, i, i + Len(sub) - 1) = sub

\* String.prototype.trim
Trim(s) ==
    LET keep == {i \in 1..Len(s) : s[i] \notin Whitespace}
    IN  IF keep = {} THEN <<>>
        ELSE SubSeq(s, CHOOSE i \in keep : \A j \in keep : i <= j,
                       CHOOSE i \in keep : \A j \in keep : i >= j)

S_url == <<"u", "r", "l">>
S_comment == <<"c", "o", "m", "m", "e", "n", "t">>
S_string == <<"s", "t", "r", "i", "n", "g">>
S_number == <<"n", "u", "m", "b", "e", "r">>
S_boolean == <<"b", "o", "o", "l", "e", "a", "n">>
S_object == <<"o", "b", "j", "e", "c", "t">>
S_array == <<"a", "r", "r", "a", "y">>
S_root == <<"r", "o", "o", "t">>
S_ExtractedFrom == <<"E", "x", "t", "r", "a", "c", "t", "e", "d", " ", "f", "r", "o", "m", " ">>

\* The characters of the object keys the model uses.
KeyChars(n) ==
    CASE n = "title" -> <<"t", "i", "t", "l", "e">>
      [] n = "price" -> <<"p", "r", "i", "c", "e">>
      [] n = "productUrl" -> <<"p", "r", "o", "d", "u", "c", "t", "U", "r", "l">>
      [] n = "numComments" -> <<"n", "u", "m", "C", "o", "m", "m", "e", "n", "t", "s">>
      [] n = "commentUrl" -> <<"c", "o", "m", "m", "e", "n", "t", "U", "r", "l">>
      [] n = "root" -> S_root
      [] n = "_metadata" -> <<"_", "m", "e", "t", "a", "d", "a", "t", "a">>
      [] n = "a" -> <<"a">>
      [] n = "b" -> <<"b">>
      [] n = "0" -> <<"0">>
      [] n = "1" -> <<"1">>
      [] n = "2" -> <<"2">>
      [] n = "3" -> <<"3">>

\* The property key of an array index or string index.
IndexKey(i) ==
    CASE i = 0 -> "0" [] i = 1 -> "1" [] i = 2 -> "2" [] i = 3 -> "3"

(***************************************************************************)
(* Property access, truthiness, Object.entries.                            *)
(***************************************************************************)
\* value.key for a value that is neither null nor undefined
Get(x, key) ==
    IF IsObj(x) /\ key \in DOMAIN x.v THEN x.v[key] ELSE Undefined

\* ToBoolean
Truthy(x) ==
    CASE x.k = "undefined" -> FALSE
      [] x.k = "null" -> FALSE
      [] x.k = "nan" -> FALSE
      [] x.k = "bool" -> x.v
      [] x.k = "num" -> x.v # 0
      [] x.k = "str" -> x.v # <<>>
      [] OTHER -> TRUE

\* Object.entries(x) as a map from key to value; it raises on null and undefined.
HasEntries(x) == x.k \notin {"null", "undefined"}
Entries(x) ==
    CASE x.k = "obj" -> x.v
      [] x.k = "arr" -> [n \in {IndexKey(i - 1) : i \in 1..Len(x.v)} |->
                            x.v[CHOOSE i \in 1..Len(x.v) : IndexKey(i - 1) = n]]
      [] x.k = "str" -> [n \in {IndexKey(i - 1) : i \in 1..Len(x.v)} |->
                            Str(<<x.v[CHOOSE i \in 1..Len(x.v) : IndexKey(i - 1) = n]>>)]
      [] OTHER -> EmptyMap

\* { selectors, structure }
ExtractorSchema(selectors, structure) ==
    Obj([selectors |-> Obj(selectors), structure |-> Obj(structure)])

(***************************************************************************)
(* Schema normalizer.                                                      *)
(***************************************************************************)
TypeNames == {S_string, S_number, S_boolean, S_object, S_array}

LooksLikeSelector(value) ==
    /\ IsStr(value)
    /\ \/ Includes(value.v, <<".">>)
       \/ Includes(value.v, <<"#">>)
       \/ Includes(value.v, <<"[">>)

\* IsTypeIndicator taking every string for a type name.
IsTypeIndicatorAnyString(value) == IsStr(value)

IsTypeIndicator(value) == IsStr(value) /\ value.v \in TypeNames

\* DefaultDescriptor leaving out the type.
DefaultDescriptorUntyped(selector) ==
    Obj([description |-> Str(S_ExtractedFrom \o selector), nullable |-> Bool(TRUE)])

DefaultDescriptor(selector) ==
    Obj([type |-> Str(S_string),
         description |-> Str(S_ExtractedFrom \o selector),
         nullable |-> Bool(TRUE)])

convertToStructuredSchema(s) ==
    IF ~HasEntries(s) THEN Throw("TypeError")
    ELSE LET e == Entries(s)
             sel == {f \in DOMAIN e : LooksLikeSelector(e[f])}
             typ == {f \in DOMAIN e : ~LooksLikeSelector(e[f]) /\ IsTypeIndicator(e[f])}
         IN  ExtractorSchema(
                 [f \in sel |-> e[f]],
                 [f \in sel \cup typ |->
                     IF f \in sel THEN DefaultDescriptor(e[f].v)
                     ELSE Obj([type |-> e[f], nullable |-> Bool(TRUE)])])

isStructuredSchema(s) ==
    /\ Truthy(s)
    /\ \/ Truthy(Get(s, "type"))
       \/ Truthy(Get(s, "selectors"))
       \/ Truthy(Get(s, "structure"))
       \/ Truthy(Get(s, "properties"))

\* propSchema is an object carrying its own selector string
HasSelectorString(p) == IsObj(p) /\ IsStr(Get(p, "selector"))

\* WithoutSelector leaving the selector in the descriptor.
WithoutSelectorKept(p) == p

WithoutSelector(p) == Obj([n \in DOMAIN p.v \ {"selector"} |-> p.v[n]])

ParseProperties(s) ==
    LET e == Entries(Get(s, "properties"))
        sel == {f \in DOMAIN e : HasSelectorString(e[f])}
    IN  ExtractorSchema(
            [f \in sel |-> Get(e[f], "selector")],
            [f \in DOMAIN e |-> IF f \in sel THEN WithoutSelector(e[f]) ELSE e[f]])

ParseRoot(s) == ExtractorSchema(EmptyMap, [n \in {"root"} |-> s])

FieldDescriptor(p) ==
    Obj([type |-> IF Truthy(Get(p, "type")) THEN Get(p, "type") ELSE Str(S_string),
         description |-> IF Truthy(Get(p, "description")) THEN Get(p, "description")
                         ELSE Str(S_ExtractedFrom \o Get(p, "selector").v),
         nullable |-> IF Get(p, "nullable") # Undefined THEN Get(p, "nullable")
                      ELSE Bool(TRUE)])

ParseFields(s) ==
    LET e == Entries(Get(s, "fields"))
        str == {f \in DOMAIN e : IsStr(e[f])}
        obj == {f \in DOMAIN e : HasSelectorString(e[f])}
    IN  ExtractorSchema(
            [f \in str \cup obj |-> IF f \in str THEN e[f] ELSE Get(e[f], "selector")],
            [f \in str \cup obj |->
                IF f \in str THEN DefaultDescriptor(e[f].v) ELSE FieldDescriptor(e[f])])

\* IsCanonical asking for a selector map that is not empty.
IsCanonicalNonEmpty(s) ==
    /\ Truthy(Get(s, "selectors"))
    /\ Truthy(Get(s, "structure"))
    /\ Get(s, "selectors") # EmptyObj

IsCanonical(s) == Truthy(Get(s, "selectors")) /\ Truthy(Get(s, "structure"))

parseStructuredSchema(s) ==
    IF IsCanonical(s) THEN s
    ELSE IF Truthy(Get(s, "type")) \/ Truthy(Get(s, "properties"))
    THEN IF Truthy(Get(s, "properties")) THEN ParseProperties(s) ELSE ParseRoot(s)
    ELSE IF Truthy(Get(s, "fields")) THEN ParseFields(s)
    ELSE convertToStructuredSchema(s)

\* The dispatch of validateSchema and loadStructuredSchema.
Normalize(s) ==
    IF isStructuredSchema(s) THEN parseStructuredSchema(s)
    ELSE convertToStructuredSchema(s)

(***************************************************************************)
(* Schema files and loadStructuredSchema.                                  *)
(***************************************************************************)
None == [k |-> "none"]
\* The schema file does not exist (readFile fails with ENOENT).
FileMissing == [k |-> "missing"]
\* The schema file exists and cannot be read (readFile fails with EACCES).
FileUnreadable == [k |-> "unreadable"]
\* The schema file exists and JSON.parse raises on it.
FileUnparseable == [k |-> "unparseable"]
\* The schema file exists and JSON.parse returns json.
FileOf(json) == [k |-> "json", v |-> json]

\* No call of fetchHTML is in the state.
NoFetch ==
    /\ fetchArgs = None
    /\ retries = None
    /\ attempt = None
    /\ lastError = None
    /\ requests = None
    /\ waits = None
    /\ response = None

\* new Error(message)
Error(message) == [k |-> "throw", v |-> "Error", message |-> message]

S_schemasDir == <<"s", "c", "h", "e", "m", "a", "s", "/">>
S_dotJson == <<".", "j", "s", "o", "n">>
\* path.join(getProjectRoot(), 'schemas', `${schemaName}.json`), below the project root
SchemaPath(schemaName) == S_schemasDir \o schemaName \o S_dotJson

S_ENOENT == <<"E", "N", "O", "E", "N", "T", ":", " ", "n", "o", " ", "s", "u", "c", "h", " ", "f", "i", "l", "e", " ", "o", "r", " ", "d", "i", "r", "e", "c", "t", "o", "r", "y", ",", " ", "o", "p", "e", "n", " ", "'">>
S_EACCES == <<"E", "A", "C", "C", "E", "S", ":", " ", "p", "e", "r", "m", "i", "s", "s", "i", "o", "n", " ", "d", "e", "n", "i", "e", "d", ",", " ", "o", "p", "e", "n", " ", "'">>
S_UnexpectedEnd == <<"U", "n", "e", "x", "p", "e", "c", "t", "e", "d", " ", "e", "n", "d", " ", "o", "f", " ", "J", "S", "O", "N", " ", "i", "n", "p", "u", "t">>
S_CannotConvert == <<"C", "a", "n", "n", "o", "t", " ", "c", "o", "n", "v", "e", "r", "t", " ", "u", "n", "d", "e", "f", "i", "n", "e", "d", " ", "o", "r", " ", "n", "u", "l", "l", " ", "t", "o", " ", "o", "b", "j", "e", "c", "t">>
S_quote == <<"'">>

\* error.message of what readFile, JSON.parse and the normalizer raise
MessageOf(e, schemaName) ==
    CASE e.v = "ENOENT" -> S_ENOENT \o SchemaPath(schemaName) \o S_quote
      [] e.v = "EACCES" -> S_EACCES \o SchemaPath(schemaName) \o S_quote
      [] e.v = "SyntaxError" -> S_UnexpectedEnd
      [] e.v = "TypeError" -> S_CannotConvert

\* JSON.parse(await fs.readFile(schemaPath, 'utf-8'))
ReadAndParse(f) ==
    CASE f = FileMissing -> Throw("ENOENT")
      [] f = FileUnreadable -> Throw("EACCES")
      [] f = FileUnparseable -> Throw("SyntaxError")
      [] OTHER -> f.v

\* The try block of loadStructuredSchema and of validateSchema up to the
\* normalized schema.
ReadAndNormalize(f) ==
    IF IsThrow(ReadAndParse(f)) THEN ReadAndParse(f) ELSE Normalize(ReadAndParse(f))

S_SchemaFileNotFound == <<"S", "c", "h", "e", "m", "a", " ", "f", "i", "l", "e", " ", "n", "o", "t", " ", "f", "o", "u", "n", "d", ":", " ">>
S_InvalidSchemaFile == <<"I", "n", "v", "a", "l", "i", "d", " ", "s", "c", "h", "e", "m", "a", " ", "f", "i", "l", "e", ":", " ">>
S_InvalidJsonInSchemaFile == <<"I", "n", "v", "a", "l", "i", "d", " ", "J", "S", "O", "N", " ", "i", "n", " ", "s", "c", "h", "e", "m", "a", " ", "f", "i", "l", "e", ":", " ">>
S_dash == <<" ", "-", " ">>

\* The catch block of loadStructuredSchema.
LoadError(e, schemaName) ==
    IF e = Throw("ENOENT") THEN Error(S_SchemaFileNotFound \o schemaName)
    ELSE Error(S_InvalidSchemaFile \o schemaName \o S_dash \o MessageOf(e, schemaName))

loadStructuredSchema(schemaName, f) ==
    IF IsThrow(ReadAndNormalize(f)) THEN LoadError(ReadAndNormalize(f), schemaName)
    ELSE ReadAndNormalize(f)

loadSchema(schemaName, f) ==
    IF ReadAndParse(f) = Throw("ENOENT") THEN Error(S_SchemaFileNotFound \o schemaName)
    ELSE IF IsThrow(ReadAndParse(f))
    THEN Error(S_InvalidJsonInSchemaFile \o schemaName \o S_dash
                   \o MessageOf(ReadAndParse(f), schemaName))
    ELSE ReadAndParse(f)

(***************************************************************************)
(* The meta-schema and validateSchema.  ajv runs with allErrors, so every  *)
(* failing keyword gives one error; the errors are kept as a set.          *)
(***************************************************************************)
\* One ajv error: where in the instance, which keyword, and the keyword's parameter.
AjvError(instancePath, keyword, param) ==
    [instancePath |-> instancePath, keyword |-> keyword, param |-> param]

\* { type: t } on the member key of an object, when the member is there
MemberTypeErrors(path, o, key, t) ==
    IF key \notin DOMAIN o.v THEN {}
    ELSE IF (t = "string" /\ IsStr(o.v[key]))
            \/ (t = "boolean" /\ o.v[key].k = "bool")
            \/ (t = "object" /\ IsObj(o.v[key]))
    THEN {}
    ELSE {AjvError(path \o <<key>>, "type", t)}

\* properties.selectors of the meta-schema
SelectorsErrors(sel) ==
    IF ~IsObj(sel) THEN {AjvError(<<"selectors">>, "type", "object")}
    ELSE {AjvError(<<"selectors", f>>, "type", "string") : f \in {g \in DOMAIN sel.v : ~IsStr(sel.v[g])}}

\* The schema of one field descriptor: patternProperties "^.*$" of structure
DescriptorErrors(path, d) ==
    IF ~IsObj(d) THEN {AjvError(path, "type", "object")}
    ELSE (IF "type" \in DOMAIN d.v THEN {} ELSE {AjvError(path, "required", "type")})
         \cup MemberTypeErrors(path, d, "type", "string")
         \cup (IF "type" \in DOMAIN d.v /\ ~IsTypeIndicator(d.v["type"])
               THEN {AjvError(path \o <<"type">>, "enum", "type")} ELSE {})
         \cup MemberTypeErrors(path, d, "description", "string")
         \cup MemberTypeErrors(path, d, "nullable", "boolean")
         \cup MemberTypeErrors(path, d, "format", "string")
         \cup MemberTypeErrors(path, d, "items", "object")
         \cup MemberTypeErrors(path, d, "properties", "object")

\* properties.structure of the meta-schema
StructureErrors(st) ==
    IF ~IsObj(st) THEN {AjvError(<<"structure">>, "type", "object")}
    ELSE UNION {DescriptorErrors(<<"structure", f>>, st.v[f]) : f \in DOMAIN st.v}

\* validate.errors of ajv.compile(schemaMetaSchema) on s
schemaMetaSchema(s) ==
    IF ~IsObj(s) THEN {AjvError(<<>>, "type", "object")}
    ELSE {AjvError(<<>>, "required", k) : k \in {"selectors", "structure"} \ DOMAIN s.v}
         \cup (IF "selectors" \in DOMAIN s.v THEN SelectorsErrors(s.v["selectors"]) ELSE {})
         \cup (IF "structure" \in DOMAIN s.v THEN StructureErrors(s.v["structure"]) ELSE {})

\* A list of diagnostics, as the errors member holds it.
Errors(set) == [k |-> "errors", v |-> set]

\* { valid: !!valid, errors: validate.errors || null }
validateParsedSchema(s) ==
    [valid |-> schemaMetaSchema(s) = {},
     errors |-> IF schemaMetaSchema(s) = {} THEN Null ELSE Errors(schemaMetaSchema(s))]

\* The diagnostic the catch block of validateSchema builds.
CaughtError(message) == [message |-> message, params |-> EmptyMap, schemaPath |-> <<>>]

\* validateSchema letting what it catches leave.
validateSchemaUncaught(schemaName, f) ==
    IF IsThrow(ReadAndNormalize(f)) THEN ReadAndNormalize(f)
    ELSE validateParsedSchema(ReadAndNormalize(f))

validateSchema(schemaName, f) ==
    IF IsThrow(ReadAndNormalize(f))
    THEN [valid |-> FALSE,
          errors |-> Errors({CaughtError(MessageOf(ReadAndNormalize(f), schemaName))})]
    ELSE validateParsedSchema(ReadAndNormalize(f))

(***************************************************************************)
(* Document model: html(selector) either raises or yields the matched      *)
(* nodes in document order.  A node has its text and its href attribute    *)
(* (Undefined when the attribute is missing).                              *)
(***************************************************************************)
Node(text, href) == [text |-> text, href |-> href]

RECURSIVE Concat(_)
Concat(ss) == IF ss = <<>> THEN <<>> ELSE Head(ss) \o Concat(Tail(ss))

\* element.text(): the combined text of every matched node
Text(element) == Concat([i \in 1..Len(element) |-> element[i].text])

\* element.attr('href'): the attribute of the first matched node
AttrHref(element) == IF element = <<>> THEN Undefined ELSE element[1].href

\* element.map(fn).get(): the results in order; a null or undefined result is left out
RECURSIVE MapGet(_)
MapGet(results) ==
    IF results = <<>> THEN <<>>
    ELSE IF Head(results) \in {Null, Undefined} THEN MapGet(Tail(results))
    ELSE <<Head(results)>> \o MapGet(Tail(results))

(***************************************************************************)
(* Field extractor.                                                        *)
(***************************************************************************)
\* The end of the longest run of characters of class cls that starts at i.
RunEnd(t, i, cls) ==
    CHOOSE j \in i..Len(t) :
        /\ \A n \in i..j : t[n] \in cls
        /\ j = Len(t) \/ t[j + 1] \notin cls

\* /(\d+)\s+comments?/ matches with its first character at position i
CommentMatchAt(t, i) ==
    /\ t[i] \in Digits
    /\ LET d == RunEnd(t, i, Digits)
       IN  /\ d < Len(t)
           /\ t[d + 1] \in Whitespace
           /\ LET w == RunEnd(t, d + 1, Whitespace)
              IN  /\ w + Len(S_comment) <= Len(t)
                  /\ SubSeq(t, w + 1, w + Len(S_comment)) = S_comment

\* text.match(/(\d+)\s+comments?/): capture group 1 of the leftmost match, or Null
CommentMatch(t) ==
    LET at == {i \in 1..Len(t) : CommentMatchAt(t, i)}
    IN  IF at = {} THEN Null
        ELSE LET i == CHOOSE n \in at : \A m \in at : n <= m
             IN  Str(SubSeq(t, i, RunEnd(t, i, Digits)))

\* ExtractUrl reading the text of the nodes where it should read their href.
ExtractUrlFromText(element) ==
    IF Len(element) > 1
    THEN Arr(MapGet([i \in 1..Len(element) |-> Str(Trim(element[i].text))]))
    ELSE IF Len(element) > 0 THEN Str(Trim(Text(element))) ELSE Null

ExtractUrl(element) ==
    IF Len(element) > 1
    THEN Arr(MapGet([i \in 1..Len(element) |-> element[i].href]))
    ELSE IF Truthy(AttrHref(element)) THEN AttrHref(element) ELSE Null

\* ExtractComment keeping the whole match, "42 comment", where it should keep group 1.
ExtractCommentWholeMatch(element) ==
    LET text == Trim(Text(element))
        matches == CommentMatch(text)
    IN  IF matches # Null /\ Truthy(matches)
        THEN Str(matches.v \o <<" ">> \o S_comment)
        ELSE Str(text)

ExtractComment(element) ==
    LET text == Trim(Text(element))
        matches == CommentMatch(text)
    IN  IF matches # Null /\ Truthy(matches) THEN matches ELSE Str(text)

\* ExtractText without the trim of the single matched node.
ExtractTextUntrimmed(element) ==
    IF Len(element) > 1
    THEN Arr(MapGet([i \in 1..Len(element) |-> Str(Trim(element[i].text))]))
    ELSE IF Len(element) > 0 THEN Str(Text(element)) ELSE Null

ExtractText(element) ==
    IF Len(element) > 1
    THEN Arr(MapGet([i \in 1..Len(element) |-> Str(Trim(element[i].text))]))
    ELSE IF Len(element) > 0 THEN Str(Trim(Text(element))) ELSE Null

IsUrlField(fieldName) == Includes(ToLowerCase(KeyChars(fieldName)), S_url)
IsCommentField(fieldName) == Includes(ToLowerCase(KeyChars(fieldName)), S_comment)

\* html(selector) returned the nodes it matched, in document order.
Matched(nodes) == [k |-> "nodes", v |-> nodes]

\* The body of the try block: html(selector) may raise.
ExtractBody(fieldName, found) ==
    IF IsThrow(found) THEN found
    ELSE IF IsUrlField(fieldName) THEN ExtractUrl(found.v)
    ELSE IF IsCommentField(fieldName) THEN ExtractComment(found.v)
    ELSE ExtractText(found.v)

\* TryExtract without its catch: the exception leaves the iteration.
TryExtractUncaught(fieldName, found) == ExtractBody(fieldName, found)

\* try { ... } catch (error) { rawData[fieldName] = null }
TryExtract(fieldName, found) ==
    LET r == ExtractBody(fieldName, found)
    IN  IF IsThrow(r) THEN Null ELSE r

\* Object.entries order: some fixed order of the keys.
RECURSIVE KeySeq(_)
KeySeq(keys) ==
    IF keys = {} THEN <<>>
    ELSE LET n == CHOOSE m \in keys : TRUE IN <<n>> \o KeySeq(keys \ {n})

\* The for loop over the selectors; an exception leaving an iteration ends it.
RECURSIVE ExtractLoop(_, _, _, _)
ExtractLoop(entries, selectors, d, acc) ==
    IF entries = <<>> THEN Obj(acc)
    ELSE LET fieldName == Head(entries)
             r == TryExtract(fieldName, d[selectors[fieldName]])
         IN  IF IsThrow(r) THEN r
             ELSE ExtractLoop(Tail(entries), selectors, d,
                      [n \in DOMAIN acc \cup {fieldName} |->
                          IF n = fieldName THEN r ELSE acc[n]])

ExtractRaw(selectors, d) == ExtractLoop(KeySeq(DOMAIN selectors), selectors, d, EmptyMap)

(***************************************************************************)
(* JavaScript conversions used by the coercer.  Numbers are integers or    *)
(* NaN; the strings of the model hold no fraction, exponent or hexadecimal *)
(* numeral, so Number(string) is the parse of an optionally signed run of  *)
(* digits.                                                                  *)
(***************************************************************************)
S_true == <<"t", "r", "u", "e">>
S_false == <<"f", "a", "l", "s", "e">>
S_yes == <<"y", "e", "s">>
S_one == <<"1">>
S_null == <<"n", "u", "l", "l">>
S_undefined == <<"u", "n", "d", "e", "f", "i", "n", "e", "d">>
S_NaN == <<"N", "a", "N">>
S_objectObject == <<"[", "o", "b", "j", "e", "c", "t", " ", "O", "b", "j", "e", "c", "t", "]">>
DigitSeq == <<"0", "1", "2", "3", "4", "5", "6", "7", "8", "9">>

DigitValue(c) == (CHOOSE i \in 1..Len(DigitSeq) : DigitSeq[i] = c) - 1

RECURSIVE NatChars(_)
NatChars(n) ==
    IF n < Len(DigitSeq) THEN <<DigitSeq[n + 1]>>
    ELSE NatChars(n \div Len(DigitSeq)) \o <<DigitSeq[(n % Len(DigitSeq)) + 1]>>

IntChars(n) == IF n < 0 THEN <<"-">> \o NatChars(0 - n) ELSE NatChars(n)

RECURSIVE DigitsValue(_)
DigitsValue(s) ==
    IF s = <<>> THEN 0
    ELSE DigitsValue(SubSeq(s, 1, Len(s) - 1)) * Len(DigitSeq) + DigitValue(s[Len(s)])

AllDigits(s) == s # <<>> /\ \A i \in 1..Len(s) : s[i] \in Digits

\* Number(string)
ParseNumber(s) ==
    LET t == Trim(s)
    IN  IF t = <<>> THEN Num(0)
        ELSE IF AllDigits(t) THEN Num(DigitsValue(t))
        ELSE IF t[1] = "-" /\ AllDigits(Tail(t)) THEN Num(0 - DigitsValue(Tail(t)))
        ELSE IF t[1] = "+" /\ AllDigits(Tail(t)) THEN Num(DigitsValue(Tail(t)))
        ELSE NaN

RECURSIVE JoinComma(_)
JoinComma(ss) ==
    IF ss = <<>> THEN <<>>
    ELSE IF Len(ss) = 1 THEN ss[1]
    ELSE ss[1] \o <<",">> \o JoinComma(Tail(ss))

\* String(value)
RECURSIVE ToStringJS(_)
ToStringJS(x) ==
    CASE x.k = "undefined" -> S_undefined
      [] x.k = "null" -> S_null
      [] x.k = "nan" -> S_NaN
      [] x.k = "bool" -> IF x.v THEN S_true ELSE S_false
      [] x.k = "num" -> IntChars(x.v)
      [] x.k = "str" -> x.v
      [] x.k = "arr" -> JoinComma([i \in 1..Len(x.v) |->
                            IF x.v[i] \in {Null, Undefined} THEN <<>>
                            ELSE ToStringJS(x.v[i])])
      [] x.k = "obj" -> S_objectObject

\* Number(value)
ToNumberJS(x) ==
    CASE x.k = "undefined" -> NaN
      [] x.k = "null" -> Num(0)
      [] x.k = "nan" -> NaN
      [] x.k = "bool" -> IF x.v THEN Num(1) ELSE Num(0)
      [] x.k = "num" -> x
      [] x.k = "str" -> ParseNumber(x.v)
      [] x.k = "arr" -> ParseNumber(ToStringJS(x))
      [] x.k = "obj" -> NaN

\* value[propName] for an object or an array
GetProp(x, key) ==
    IF IsArr(x)
    THEN IF \E i \in 1..Len(x.v) : IndexKey(i - 1) = key
         THEN x.v[CHOOSE i \in 1..Len(x.v) : IndexKey(i - 1) = key]
         ELSE Undefined
    ELSE Get(x, key)

\* array.slice(0, m)
SliceTo(s, m) ==
    IF m >= 0 THEN SubSeq(s, 1, IF m < Len(s) THEN m ELSE Len(s))
    ELSE SubSeq(s, 1, Len(s) + m)

(***************************************************************************)
(* Type coercer.                                                           *)
(***************************************************************************)
\* descriptor.required?.includes(name)
RequiredIncludes(d, name) ==
    /\ IsArr(Get(d, "required"))
    /\ \E i \in 1..Len(Get(d, "required").v) : Get(d, "required").v[i] = Str(KeyChars(name))

\* The property names convertToType copies into the fresh object.
IncludedProps(value, d) ==
    {p \in DOMAIN Get(d, "properties").v :
        \/ GetProp(value, p) # Undefined
        \/ RequiredIncludes(Get(d, "properties").v[p], p)}

CoerceBoolean(value) ==
    IF IsStr(value)
    THEN Bool(ToLowerCase(value.v) \in {S_true, S_yes, S_one})
    ELSE Bool(Truthy(value))

\* CoerceNumber without its default: a failed parse is returned as NaN.
CoerceNumberNoDefault(value) == ToNumberJS(value)

CoerceNumber(value) ==
    IF ToNumberJS(value) = NaN THEN Num(0) ELSE ToNumberJS(value)

\* ArrayOf wrapping every value that is no array, also a falsy one.
ArrayOfWrapAll(value, d) ==
    LET a == IF IsArr(value) THEN value.v ELSE <<value>>
        m == Get(d, "maxItems")
    IN  IF Truthy(m) /\ Len(a) > m.v THEN SliceTo(a, m.v) ELSE a

\* The array before its items are converted: wrapped, then truncated.
ArrayOf(value, d) ==
    LET a == IF IsArr(value) THEN value.v
             ELSE IF Truthy(value) THEN <<value>> ELSE <<>>
        m == Get(d, "maxItems")
    IN  IF Truthy(m) /\ Len(a) > m.v THEN SliceTo(a, m.v) ELSE a

RECURSIVE convertToType(_, _)
convertToType(value, d) ==
    LET type == Get(d, "type")
    IN  CASE type = Str(S_string) -> Str(ToStringJS(value))
          [] type = Str(S_number) -> CoerceNumber(value)
          [] type = Str(S_boolean) -> CoerceBoolean(value)
          [] type = Str(S_array) ->
                LET a == ArrayOf(value, d)
                IN  IF Truthy(Get(d, "items"))
                    THEN Arr([i \in 1..Len(a) |-> convertToType(a[i], Get(d, "items"))])
                    ELSE Arr(a)
          [] type = Str(S_object) ->
                LET o == IF IsObj(value) \/ IsArr(value) THEN value ELSE EmptyObj
                IN  IF Truthy(Get(d, "properties"))
                    THEN Obj([p \in IncludedProps(o, d) |->
                                convertToType(GetProp(o, p), Get(d, "properties").v[p])])
                    ELSE o
          [] OTHER -> value

\* StructuredFields skipping every field without a raw value, required or not.
StructuredFieldsSkipUndefined(data, structure) ==
    {f \in DOMAIN structure :
        /\ Get(data, f) # Undefined
        /\ Get(data, f) = Null => Truthy(Get(structure[f], "nullable"))}

\* The fields validateAndStructure puts in its result.
StructuredFields(data, structure) ==
    {f \in DOMAIN structure :
        /\ ~(Get(data, f) = Undefined /\ ~RequiredIncludes(structure[f], f))
        /\ Get(data, f) = Null => Truthy(Get(structure[f], "nullable"))}

validateAndStructure(data, structure) ==
    Obj([f \in StructuredFields(data, structure) |->
            IF Get(data, f) = Null THEN Null
            ELSE convertToType(Get(data, f), structure[f])])

\* { ...data, _metadata: { schemaVersion: '1.0', extractedAt } }
S_version == <<"1", ".", "0">>

\* { ...data }: the own enumerable properties of data, none for null,
\* undefined, numbers and booleans
Spread(data) == Entries(data)

\* addMetadata with the spread last: a _metadata key of data is kept.
addMetadataKeepExisting(data, now) ==
    Obj([n \in DOMAIN Spread(data) \cup {"_metadata"} |->
            IF n \in DOMAIN Spread(data) THEN Spread(data)[n]
            ELSE Obj([schemaVersion |-> Str(S_version), extractedAt |-> now])])

\* { ...data, _metadata: { schemaVersion: '1.0', extractedAt } }
addMetadata(data, now) ==
    Obj([n \in DOMAIN Spread(data) \cup {"_metadata"} |->
            IF n = "_metadata"
            THEN Obj([schemaVersion |-> Str(S_version), extractedAt |-> now])
            ELSE Spread(data)[n]])

\* extractStructuredData(html, schema): the raw data and the returned output
StructuredOutput(raw, s, now) ==
    IF IsThrow(raw) THEN raw
    ELSE IF ~Truthy(Get(s, "structure")) THEN addMetadata(raw, now)
    ELSE addMetadata(validateAndStructure(raw, Get(s, "structure").v), now)

(***************************************************************************)
(* The formatter.  The text of the language model's reply is a sequence of *)
(* tokens: a code fence, a word, or the text of a JSON value; white space   *)
(* between tokens is what trim() removes.                                  *)
(***************************************************************************)
Tok(word) == [k |-> "tok", v |-> word]
\* The code fence: three backquotes.
Fence == Tok("fence")
JsonText(json) == [k |-> "jsontext", v |-> json]

\* The cleaning of result.text: a leading fence with or without the word
\* json, a trailing fence.
CleanedText(text) ==
    LET head == IF Len(text) >= 2 /\ text[1] = Fence /\ text[2] = Tok("json")
                THEN SubSeq(text, 3, Len(text))
                ELSE IF Len(text) >= 1 /\ text[1] = Fence THEN Tail(text)
                ELSE text
    IN  IF Len(head) >= 1 /\ head[Len(head)] = Fence
        THEN SubSeq(head, 1, Len(head) - 1) ELSE head

\* JSON.parse(cleanedText)
JsonParse(text) ==
    IF Len(text) = 1 /\ text[1].k = "jsontext" THEN text[1].v ELSE Throw("SyntaxError")

\* validateBasicTypes(data, schema)
BasicType(value, fieldSchema) ==
    LET type == Get(fieldSchema, "type")
    IN  CASE type = Str(S_string) -> Str(ToStringJS(value))
          [] type = Str(S_number) -> CoerceNumber(value)
          [] type = Str(S_boolean) -> Bool(Truthy(value))
          [] type = Str(S_array) -> IF IsArr(value) THEN value ELSE Arr(<<value>>)
          [] OTHER -> value

validateBasicTypes(data, s) ==
    LET fields == {f \in DOMAIN Entries(s) : GetProp(data, f) # Undefined}
    IN  IF \E f \in fields : ~HasEntries(Entries(s)[f]) THEN Throw("TypeError")
        ELSE Obj([f \in fields |-> BasicType(GetProp(data, f), Entries(s)[f])])

\* formatStructuredOutput(extractedData, schema); llm is what generateText
\* does: it raises, or it returns the text of a reply.
formatStructuredOutput(extractedData, s, llm, now) ==
    IF ~IsThrow(llm) /\ ~IsThrow(JsonParse(CleanedText(llm.v)))
    THEN addMetadata(JsonParse(CleanedText(llm.v)), now)
    ELSE IF IsThrow(validateBasicTypes(extractedData, s))
    THEN validateBasicTypes(extractedData, s)
    ELSE addMetadata(validateBasicTypes(extractedData, s), now)

(***************************************************************************)
(* The renderer of structured output.                                      *)
(***************************************************************************)
\* excludeMetadata returning its argument whole.
excludeNothing(data) == data

\* const { _metadata, ...rest } = data; return rest
excludeMetadata(data) ==
    Obj([n \in DOMAIN Spread(data) \ {"_metadata"} |-> Spread(data)[n]])

\* const { includeMetadata = true } = options
IncludeMetadata(options) ==
    IF Get(options, "includeMetadata") = Undefined THEN Bool(TRUE)
    ELSE Get(options, "includeMetadata")

\* outputData of outputStructuredData(data, format, savePath, options)
OutputData(data, options) ==
    IF Truthy(IncludeMetadata(IF options = Undefined THEN EmptyObj ELSE options))
    THEN data ELSE excludeMetadata(data)

(***************************************************************************)
(* Inputs of the extraction pipeline: a canonical schema of one or two     *)
(* fields and, for each of its selectors, what html(selector) does.        *)
(***************************************************************************)
Nodes ==
    { Node(<<" ", " ", "H", "i", " ", "5", " ", " ">>, Str(<<"/", "x">>)),
      Node(<<"4", "2", " ", "c", "o", "m", "m", "e", "n", "t", "s">>, Undefined),
      Node(<<"\t", "7", " ", " ", "c", "o", "m", "m", "e", "n", "t", "\n">>, Str(<<>>)) }

NodeSeqs == UNION {[1..n -> Nodes] : n \in 0..MaxNodes}

Outcomes == {Matched(ns) : ns \in NodeSeqs} \cup {Throw("SyntaxError")}

FieldNames == {"title", "productUrl", "numComments", "commentUrl"}

SelectorOf(f) == Str(<<".">> \o KeyChars(f))

\* The selector maps of one field and of two fields.
SelectorMaps ==
    {[f \in {a, b} |-> SelectorOf(f)] : a \in FieldNames, b \in FieldNames}

D_nullable == Obj([type |-> Str(S_string), nullable |-> Bool(TRUE)])
D_notNullable == Obj([type |-> Str(S_string), nullable |-> Bool(FALSE)])
D_default == Obj([type |-> Str(S_string)])

FieldDescriptors == {D_nullable, D_notNullable, D_default}

\* No structure, a structure describing every selector field, or one that
\* leaves a selector field out.
StructuresFor(selectors) ==
    {Absent} \cup
    {Obj([f \in DOMAIN selectors |-> d]) : d \in FieldDescriptors} \cup
    {Obj([f \in DOMAIN selectors \ {g} |-> D_nullable]) : g \in DOMAIN selectors}

PipelineSchemas ==
    UNION {{ObjOf([selectors |-> Obj(sel), structure |-> st]) : st \in StructuresFor(sel)} :
            sel \in SelectorMaps}

SelectorsOf(s) == Get(s, "selectors").v

Range(f) == {f[x] : x \in DOMAIN f}

\* new Date().toISOString(): two instants stand for the clock.
Timestamps ==
    { Str(<<"2", "0", "2", "4", "-", "0", "1", "-", "0", "1", "T", "0", "0", ":", "0", "0", ":", "0", "0", ".", "0", "0", "0", "Z">>),
      Str(<<"2", "0", "2", "4", "-", "0", "1", "-", "0", "1", "T", "0", "0", ":", "0", "0", ":", "0", "1", ".", "0", "0", "0", "Z">>) }

InitPipeline ==
    /\ pc = "loaded"
    /\ file = None
    /\ loaded = None
    /\ renorm = None
    /\ schema \in PipelineSchemas
    /\ doc \in [Range(SelectorsOf(schema)) -> Outcomes]
    /\ rawData = None
    /\ output = None
    /\ argv = None
    /\ validation = None
    /\ simpleSchema = None
    /\ reply = None
    /\ formatted = None
    /\ outputData = None
    /\ exitCode = None
    /\ llmCalls = 0
    /\ NoFetch
    /\ reconverted = None

\* extractStructuredData(html, schema)
Extract ==
    /\ pc = "loaded"
    /\ rawData' = ExtractRaw(SelectorsOf(schema), doc)
    /\ \E now \in Timestamps : output' = StructuredOutput(rawData', schema, now)
    /\ pc' = "extracted"
    /\ UNCHANGED <<file, schema, loaded, renorm, doc, validation, cliVars, fetchVars, reconverted>>

NextPipeline == Extract

Spec == InitPipeline /\ [][NextPipeline]_vars

(***************************************************************************)
(* Properties of the extraction pipeline (specification Spec).             *)
(***************************************************************************)
Extracted == pc = "extracted"
Selectors == SelectorsOf(schema)
Structure == Get(schema, "structure")
FoundFor(f) == doc[Selectors[f]]
MatchedFields == {f \in DOMAIN Selectors : ~IsThrow(FoundFor(f))}
PlainFields == {f \in MatchedFields : ~IsUrlField(f) /\ ~IsCommentField(f)}
UrlFields == {f \in MatchedFields : IsUrlField(f)}
CommentFields == {f \in MatchedFields : IsCommentField(f) /\ ~IsUrlField(f)}

\* C1: a structure field whose raw value is null is absent from the output
\* when its descriptor says nullable:false, and present with value null when
\* the descriptor says nullable:true or leaves nullable unspecified.
C1_NullablePolicy ==
    Extracted /\ IsObj(Structure) =>
        \A f \in DOMAIN Structure.v :
            Get(rawData, f) = Null =>
                IF Get(Structure.v[f], "nullable") = Bool(FALSE)
                THEN f \notin DOMAIN output.v
                ELSE f \in DOMAIN output.v /\ output.v[f] = Null

\* C4: with a structure defined, a field that has a selector and no structure
\* entry keeps its extracted value in the output, as a string.
C4_UnstructuredFieldKept ==
    Extracted /\ IsObj(Structure) =>
        \A f \in DOMAIN Selectors \ DOMAIN Structure.v :
            Get(rawData, f) # Null =>
                /\ f \in DOMAIN output.v
                /\ output.v[f] = Str(ToStringJS(Get(rawData, f)))

\* C5: for a field whose name holds neither "url" nor "comment", several
\* matched nodes give the array of their trimmed texts in document order, and
\* exactly one matched node gives its trimmed text as a bare string.
C5_PlainFieldText ==
    Extracted =>
        \A f \in PlainFields :
            LET nodes == FoundFor(f).v
            IN  /\ Len(nodes) > 1 =>
                    rawData.v[f] = Arr([i \in 1..Len(nodes) |-> Str(Trim(nodes[i].text))])
                /\ Len(nodes) = 1 => rawData.v[f] = Str(Trim(nodes[1].text))

C5_Witness ==
    /\ Extracted
    /\ \E f \in PlainFields :
        /\ Len(FoundFor(f).v) > 1
        /\ FoundFor(f).v[1].text # Trim(FoundFor(f).v[1].text)
        /\ IsArr(rawData.v[f])
        /\ Len(rawData.v[f].v) = Len(FoundFor(f).v)
        /\ rawData.v[f].v[1] = Str(<<"H", "i", " ", "5">>)

\* C6: whatever the field's name, a selector that matches no node gives the
\* raw value null.
C6_NoMatchIsNull ==
    Extracted =>
        \A f \in MatchedFields : FoundFor(f).v = <<>> => rawData.v[f] = Null

\* C7: a selector whose evaluation raises makes its own field null, nothing
\* propagates, and every other field has the value it has in the same document
\* with the failing selectors matching nothing instead of raising; the raw
\* result has one entry for each selector key.
DocWithoutFailure ==
    [s \in DOMAIN doc |-> IF IsThrow(doc[s]) THEN Matched(<<>>) ELSE doc[s]]

C7_FailureIsolation ==
    Extracted =>
        /\ IsObj(rawData)
        /\ IsObj(output)
        /\ DOMAIN rawData.v = DOMAIN Selectors
        /\ LET clean == ExtractRaw(Selectors, DocWithoutFailure)
           IN  \A f \in DOMAIN Selectors :
                    IF IsThrow(FoundFor(f)) THEN rawData.v[f] = Null
                    ELSE rawData.v[f] = clean.v[f]

C7_Witness ==
    /\ Extracted
    /\ \E f, g \in DOMAIN Selectors :
        /\ IsThrow(FoundFor(f))
        /\ rawData.v[f] = Null
        /\ ~IsThrow(FoundFor(g))
        /\ rawData.v[g] \notin {Null, Str(<<>>), Arr(<<>>)}

\* The href values of the nodes that have the attribute, in document order.
RECURSIVE HrefsOf(_)
HrefsOf(nodes) ==
    IF nodes = <<>> THEN <<>>
    ELSE IF Head(nodes).href = Undefined THEN HrefsOf(Tail(nodes))
    ELSE <<Head(nodes).href>> \o HrefsOf(Tail(nodes))

\* C8 as stated: for a field whose name holds "url" the raw value comes from
\* href and never from the text; several matched nodes give the array of their
\* href values; a single matched node gives its href, and null when it has no
\* href attribute.
C8_UrlFromHref ==
    Extracted =>
        \A f \in UrlFields :
            LET nodes == FoundFor(f).v
            IN  /\ Len(nodes) > 1 => rawData.v[f] = Arr(HrefsOf(nodes))
                /\ Len(nodes) = 1 =>
                    rawData.v[f] = IF nodes[1].href = Undefined THEN Null ELSE nodes[1].href

\* C8 amended: as C8, but a single matched node gives null also when its href
\* attribute is the empty string; the array holds the href values of the
\* matched nodes that have the attribute.
C8_UrlFromHrefAmended ==
    Extracted =>
        \A f \in UrlFields :
            LET nodes == FoundFor(f).v
            IN  /\ Len(nodes) > 1 => rawData.v[f] = Arr(HrefsOf(nodes))
                /\ Len(nodes) = 1 =>
                    rawData.v[f] = IF nodes[1].href \in {Undefined, Str(<<>>)} THEN Null
                                   ELSE nodes[1].href

C8_Witness ==
    /\ Extracted
    /\ "commentUrl" \in UrlFields
    /\ Len(FoundFor("commentUrl").v) = 1
    /\ rawData.v["commentUrl"] = FoundFor("commentUrl").v[1].href
    /\ rawData.v["commentUrl"] # Str(Trim(FoundFor("commentUrl").v[1].text))

\* The tokens "<digits> comment" of a text: <<i, j>> when the characters i..j
\* are digits and are followed by white space and then by "comment".
CommentTokens(t) ==
    {ij \in (1..Len(t)) \X (1..Len(t)) :
        /\ ij[1] <= ij[2]
        /\ \A n \in ij[1]..ij[2] : t[n] \in Digits
        /\ \E w \in (ij[2] + 1)..(Len(t) - Len(S_comment)) :
            /\ \A n \in (ij[2] + 1)..w : t[n] \in Whitespace
            /\ SubSeq(t, w + 1, w + Len(S_comment)) = S_comment}

\* C9: for a field whose name holds "comment" and not "url", a trimmed text
\* holding a token "<digits> comment" or "<digits> comments" gives exactly the
\* digits of the first such token, as text; any other text is given whole.
C9_CommentCount ==
    Extracted =>
        \A f \in CommentFields :
            LET t == Trim(Text(FoundFor(f).v))
                tokens == CommentTokens(t)
            IN  IF tokens = {} THEN rawData.v[f] = Str(t)
                ELSE \E ij \in tokens :
                        /\ \A other \in tokens : ij[1] <= other[1]
                        /\ rawData.v[f] = Str(SubSeq(t, ij[1], ij[2]))

C9_Witness ==
    /\ Extracted
    /\ \E f \in CommentFields :
        /\ Len(FoundFor(f).v) = 1
        /\ CommentTokens(Trim(Text(FoundFor(f).v))) # {}
        /\ rawData.v[f] = Str(<<"4", "2">>)

(***************************************************************************)
(* The schema loader (specification SpecNorm): a schema file of any of the *)
(* four shapes, or of none, is loaded and its normal form normalized again. *)
(***************************************************************************)
S_dotT == <<".", "t">>
S_hashP == <<"#", "p">>
S_h1 == <<"h", "1">>

SelectorsOptions ==
    {Absent, EmptyObj, Obj([title |-> Str(S_dotT)]), Str(S_dotT)}

StructureOptions ==
    {Absent, EmptyObj, Null, Obj([title |-> Obj([type |-> Str(S_string)])]), Str(S_dotT)}

TypeOptions == {Absent, Str(S_object), Str(<<>>), Str(S_dotT)}

PropertiesOptions ==
    { Absent,
      Obj([title |-> Obj([type |-> Str(S_string), selector |-> Str(S_dotT)]),
           price |-> Obj([type |-> Str(S_number)])]),
      Obj([a |-> Str(S_dotT), b |-> Obj([selector |-> Num(1)]), c |-> Null]) }

FieldsOptions ==
    { Absent,
      Obj([title |-> Str(S_dotT),
           price |-> Obj([selector |-> Str(S_hashP), type |-> Str(S_number),
                          description |-> Str(<<>>), nullable |-> Bool(FALSE)]),
           a |-> Obj([selector |-> Str(S_h1), nullable |-> Bool(FALSE)])]),
      Obj([a |-> Obj([selector |-> Str(S_h1), type |-> Str(<<>>), nullable |-> Null]),
           b |-> Obj([type |-> Str(S_number)])]) }

TitleOptions == {Absent, Str(S_dotT), Str(S_string)}
PriceOptions == {Absent, Str(S_h1), Str(S_number)}

SchemaObjects ==
    {ObjOf([selectors |-> sel, structure |-> st, type |-> ty, properties |-> pr,
            fields |-> fl, title |-> ti, price |-> pi]) :
        sel \in SelectorsOptions, st \in StructureOptions, ty \in TypeOptions,
        pr \in PropertiesOptions, fl \in FieldsOptions,
        ti \in TitleOptions, pi \in PriceOptions}

\* JSON values that are no object, or an array.
SchemaOthers ==
    { Null, Bool(TRUE), Bool(FALSE), Num(0), Num(1), Str(<<>>), Str(S_dotT),
      Arr(<<>>), Arr(<<Str(S_dotT), Str(S_string)>>) }

\* argv.schema: the names of the schema files.
SchemaNames == {<<"a", "r", "t", "i", "c", "l", "e">>, <<"p">>}

SchemaFiles ==
    {FileMissing, FileUnreadable, FileUnparseable} \cup {FileOf(j) : j \in SchemaObjects \cup SchemaOthers}

InitNorm ==
    /\ pc = "start"
    /\ file \in SchemaFiles
    /\ schema = None
    /\ loaded = None
    /\ renorm = None
    /\ doc = None
    /\ rawData = None
    /\ output = None
    /\ argv \in {[schema |-> Str(n)] : n \in SchemaNames}
    /\ validation = None
    /\ simpleSchema = None
    /\ reply = None
    /\ formatted = None
    /\ outputData = None
    /\ exitCode = None
    /\ llmCalls = 0
    /\ NoFetch
    /\ reconverted = None

\* loadStructuredSchema(schemaName); schema keeps what the normalizer itself did.
LoadStructuredSchema ==
    /\ pc = "start"
    /\ schema' = IF file.k = "json" THEN Normalize(file.v) ELSE None
    /\ loaded' = loadStructuredSchema(argv.schema.v, file)
    /\ pc' = "loaded"
    /\ UNCHANGED <<file, renorm, doc, rawData, output, validation, cliVars, fetchVars, reconverted>>

\* The normalizer applied to its own result.
Renormalize ==
    /\ pc = "loaded"
    /\ schema # None
    /\ ~IsThrow(schema)
    /\ renorm' = Normalize(schema)
    /\ pc' = "renormalized"
    /\ UNCHANGED <<file, schema, loaded, doc, rawData, output, validation, cliVars, fetchVars, reconverted>>

\* validateSchema(schemaName)
ValidateSchema ==
    /\ pc = "start"
    /\ validation' = validateSchema(argv.schema.v, file)
    /\ pc' = "validated"
    /\ UNCHANGED <<file, schema, loaded, renorm, doc, rawData, output, cliVars, fetchVars, reconverted>>

NextNorm == LoadStructuredSchema \/ Renormalize \/ ValidateSchema

SpecNorm == InitNorm /\ [][NextNorm]_vars

\* C2: the normalizer never raises: for every parsed JSON value it returns a
\* schema with a selectors map and a structure map.
C2_NormalizerTotal ==
    pc # "start" /\ file.k = "json" =>
        /\ ~IsThrow(schema)
        /\ IsObj(Get(schema, "selectors"))
        /\ IsObj(Get(schema, "structure"))

\* C3: normalizing the result of the normalizer returns that result.
C3_NormalizerIdempotent ==
    pc = "renormalized" => renorm = schema

C3_Witness ==
    /\ pc = "renormalized"
    /\ ~IsCanonical(file.v)
    /\ Truthy(Get(file.v, "fields"))
    /\ schema # file.v
    /\ Get(schema, "selectors") # EmptyObj
    /\ renorm = schema

\* C17: validateSchema never raises: for a missing, unreadable or unparseable
\* file and for JSON of any shape it returns {valid, errors}; when reading,
\* parsing or normalizing fails, valid is false and errors holds exactly one
\* diagnostic, whose message is the message of the error caught.
C17_ValidateSchemaTotal ==
    pc = "validated" =>
        /\ DOMAIN validation = {"valid", "errors"}
        /\ validation.valid \in BOOLEAN
        /\ file.k # "json" \/ file.v = Null =>
              /\ validation.valid = FALSE
              /\ validation.errors # Null
              /\ Cardinality(validation.errors.v) = 1
              /\ \A e \in validation.errors.v :
                    e.message = MessageOf(IF file.k = "json" THEN Throw("TypeError")
                                          ELSE ReadAndParse(file), argv.schema.v)

C17_Witness ==
    /\ pc = "validated"
    /\ file = FileUnparseable
    /\ validation = [valid |-> FALSE, errors |-> Errors({CaughtError(S_UnexpectedEnd)})]

\* C18: whenever the schema file exists and parses as JSON, loadStructuredSchema
\* returns the normalized schema, also when that schema fails the meta-schema.
C18_ValidationAdvisory ==
    pc = "loaded" /\ file.k = "json" =>
        /\ ~IsThrow(loaded)
        /\ Get(loaded, "selectors") # Undefined
        /\ Get(loaded, "structure") # Undefined

\* A flat map: a JSON object in which none of the keys that mark a structured
\* schema (type, selectors, structure, properties) is set.
IsFlatMap(j) ==
    IsObj(j) /\ \A key \in {"type", "selectors", "structure", "properties"} : ~Truthy(Get(j, key))

HasSelectorChar(value) == \E i \in 1..Len(value) : value[i] \in {".", "#", "["}

\* C20: in the normal form of a flat map, a field whose value is a string
\* holding '.', '#' or '[' has that string as its selector and the descriptor
\* {type:'string', description:'Extracted from <value>', nullable:true}; a
\* field whose value is one of the five type names has {type:value,
\* nullable:true} and no selector; no other key is in either map.
C20_FlatMapNormalization ==
    pc = "loaded" /\ file.k = "json" /\ IsFlatMap(file.v) =>
        LET flat == file.v.v
            strings == {f \in DOMAIN flat : IsStr(flat[f])}
            sel == {f \in strings : HasSelectorChar(flat[f].v)}
            typ == {f \in strings \ sel : flat[f].v \in TypeNames}
        IN  /\ IsObj(schema)
            /\ DOMAIN schema.v = {"selectors", "structure"}
            /\ DOMAIN Get(schema, "selectors").v = sel
            /\ DOMAIN Get(schema, "structure").v = sel \cup typ
            /\ \A f \in sel :
                  /\ Get(schema, "selectors").v[f] = flat[f]
                  /\ Get(schema, "structure").v[f] =
                        Obj([type |-> Str(S_string),
                             description |-> Str(S_ExtractedFrom \o flat[f].v),
                             nullable |-> Bool(TRUE)])
            /\ \A f \in typ :
                  Get(schema, "structure").v[f] = Obj([type |-> flat[f], nullable |-> Bool(TRUE)])

C20_Witness ==
    /\ pc = "loaded"
    /\ file = FileOf(Obj([title |-> Str(S_dotT), price |-> Str(S_number)]))
    /\ schema = ExtractorSchema(
            [f \in {"title"} |-> Str(S_dotT)],
            [title |-> DefaultDescriptor(S_dotT),
             price |-> Obj([type |-> Str(S_number), nullable |-> Bool(TRUE)])])

\* The key is set in the schema object j (its value is truthy).
HasKey(j, key) == Truthy(Get(j, key))

\* The normal form of j handled as property-style.
PropertyStyle(j) == IF HasKey(j, "properties") THEN ParseProperties(j) ELSE ParseRoot(j)

\* C21: shape detection follows a fixed priority: an object with selectors and
\* structure is returned unchanged, also when it has type, properties or
\* fields; otherwise an object with type or properties is handled as
\* property-style, also when it has fields; otherwise an object with fields is
\* handled as fields-style; only an object matching none of these is handled
\* as a flat selector map.
C21_ShapePriority ==
    pc = "loaded" /\ file.k = "json" /\ IsObj(file.v) =>
        LET j == file.v
        IN  IF HasKey(j, "selectors") /\ HasKey(j, "structure") THEN schema = j
            ELSE IF HasKey(j, "type") \/ HasKey(j, "properties") THEN schema = PropertyStyle(j)
            ELSE IF HasKey(j, "fields") THEN schema = ParseFields(j)
            ELSE schema = convertToStructuredSchema(j)

\* The schema object j is handled as property-style and its properties are a map.
IsPropertyStyle(j) ==
    /\ IsObj(j)
    /\ ~(HasKey(j, "selectors") /\ HasKey(j, "structure"))
    /\ IsObj(Get(j, "properties"))

\* C22: in the normal form of a schema with properties every property name is
\* in structure; a property that is an object with a string selector is also
\* in selectors with that string, and its structure entry is the property
\* without the selector key; any other property has no selector and its
\* structure entry is the property itself; the schema read from the file is
\* as it was.
C22_PropertyStyle ==
    pc = "loaded" /\ file.k = "json" /\ IsPropertyStyle(file.v) =>
        LET props == Get(file.v, "properties").v
            withSelector == {f \in DOMAIN props :
                                /\ IsObj(props[f])
                                /\ "selector" \in DOMAIN props[f].v
                                /\ IsStr(props[f].v["selector"])}
        IN  /\ loaded = schema
            /\ DOMAIN schema.v = {"selectors", "structure"}
            /\ DOMAIN Get(schema, "structure").v = DOMAIN props
            /\ DOMAIN Get(schema, "selectors").v = withSelector
            /\ \A f \in withSelector :
                  /\ Get(schema, "selectors").v[f] = props[f].v["selector"]
                  /\ Get(schema, "structure").v[f] =
                        Obj([n \in DOMAIN props[f].v \ {"selector"} |-> props[f].v[n]])
            /\ \A f \in DOMAIN props \ withSelector :
                  Get(schema, "structure").v[f] = props[f]

C22_Witness ==
    /\ pc = "loaded"
    /\ file = FileOf(Obj([properties |->
                  Obj([title |-> Obj([type |-> Str(S_string), selector |-> Str(S_dotT)]),
                       price |-> Obj([type |-> Str(S_number)])])]))
    /\ schema = ExtractorSchema(
            [f \in {"title"} |-> Str(S_dotT)],
            [title |-> Obj([type |-> Str(S_string)]),
             price |-> Obj([type |-> Str(S_number)])])

\* The schema object j reaches the fields-style case of the normalizer and
\* its fields are a map.
IsFieldsStyle(j) ==
    /\ IsObj(j)
    /\ isStructuredSchema(j)
    /\ ~(HasKey(j, "selectors") /\ HasKey(j, "structure"))
    /\ ~HasKey(j, "type")
    /\ ~HasKey(j, "properties")
    /\ IsObj(Get(j, "fields"))

\* The value x is present: neither null nor undefined.
Present(x) == x \notin {Undefined, Null}

\* C23: in the fields-style normal form, an entry that is an object with a
\* string selector gets the structure entry {type, description, nullable} in
\* which each of the three is the entry's own value whenever that value is
\* present, an empty string and false included, and the default ('string',
\* 'Extracted from <selector>', true) only when it is null or undefined.
C23_FieldsStyleDefaults ==
    pc = "loaded" /\ file.k = "json" /\ IsFieldsStyle(file.v) =>
        LET fields == Get(file.v, "fields").v
        IN  \A f \in DOMAIN fields :
                IsObj(fields[f]) /\ IsStr(Get(fields[f], "selector")) =>
                    LET e == fields[f]
                    IN  /\ f \in DOMAIN Get(schema, "structure").v
                        /\ Get(schema, "structure").v[f] =
                              Obj([type |-> IF Present(Get(e, "type")) THEN Get(e, "type")
                                            ELSE Str(S_string),
                                   description |->
                                       IF Present(Get(e, "description")) THEN Get(e, "description")
                                       ELSE Str(S_ExtractedFrom \o Get(e, "selector").v),
                                   nullable |-> IF Present(Get(e, "nullable")) THEN Get(e, "nullable")
                                                ELSE Bool(TRUE)])

\* A schema file holding an object whose values are all strings.
IsStringMap(j) == IsObj(j) /\ \A key \in DOMAIN j.v : IsStr(j.v[key])

Passes == [valid |-> TRUE, errors |-> Null]

\* C28 as stated: for every schema file holding an object whose values are
\* all strings, validateSchema reports valid = true and errors = null.
C28_StringMapIsValid ==
    pc = "validated" /\ file.k = "json" /\ IsStringMap(file.v) => validation = Passes

\* The string maps the normalizer reads as flat selector maps: no type and no
\* properties value is set, and selectors and structure are not both set.
IsFallbackMap(j) ==
    /\ IsStringMap(j)
    /\ ~HasKey(j, "type")
    /\ ~HasKey(j, "properties")
    /\ ~(HasKey(j, "selectors") /\ HasKey(j, "structure"))

\* C28 (amended): for every schema file holding an object whose values are
\* all strings, in which neither type nor properties is a non-empty string and
\* selectors and structure are not both non-empty strings, validateSchema
\* reports valid = true and errors = null.
C28_FallbackMapIsValid ==
    pc = "validated" /\ file.k = "json" /\ IsFallbackMap(file.v) => validation = Passes

C28_Witness ==
    /\ pc = "validated"
    /\ file = FileOf(Obj([selectors |-> Str(S_dotT), title |-> Str(S_dotT), price |-> Str(S_number)]))
    /\ validation = Passes

\* A schema file that defines a selectors map and no structure.
IsSelectorsOnly(j) ==
    IsObj(j) /\ IsObj(Get(j, "selectors")) /\ Get(j, "structure") = Undefined

\* C29: a schema file that defines a selectors map and no structure is loaded
\* without an error, and the selectors of the loaded schema are the given
\* map, so that every one of its fields is there for the extractor.
C29_SelectorsWithoutStructure ==
    pc = "loaded" /\ file.k = "json" /\ IsSelectorsOnly(file.v) =>
        /\ ~IsThrow(loaded)
        /\ Get(loaded, "selectors") = Get(file.v, "selectors")

(***************************************************************************)
(* The type coercer (specification SpecCoerce): validateAndStructure on a  *)
(* raw value of field "a" and a descriptor of that field.                  *)
(***************************************************************************)
S_a == KeyChars("a")
S_b == KeyChars("b")

RequiredOptions ==
    {Absent, Arr(<<Str(S_a)>>), Arr(<<Str(S_b)>>), Arr(<<Str(S_a), Str(S_b)>>)}

\* { type: 'object', required, properties: { a: { type: 'string', required }, b: { type: 'number' } } }
ObjectDescriptors ==
    {ObjOf([type |-> Str(S_object), required |-> rp,
            properties |-> Obj([a |-> ObjOf([type |-> Str(S_string), required |-> ra]),
                                b |-> Obj([type |-> Str(S_number)])])]) :
        rp \in RequiredOptions, ra \in {Absent, Arr(<<Str(S_a)>>)}}
    \cup
    { Obj([type |-> Str(S_object)]),
      Obj([type |-> Str(S_object),
           properties |-> Obj([a |-> Obj([type |-> Str(S_object),
                                          properties |-> Obj([b |-> Obj([type |-> Str(S_boolean)])])])])]) }

ScalarDescriptors ==
    { Obj([type |-> Str(S_string)]),
      Obj([type |-> Str(S_number)]),
      Obj([type |-> Str(S_boolean)]),
      Obj([type |-> Str(S_string), required |-> Arr(<<Str(S_a)>>)]),
      Obj([type |-> Str(S_number), required |-> Arr(<<Str(S_a)>>)]),
      Obj([type |-> Str(S_boolean), required |-> Arr(<<Str(S_b)>>)]) }

MaxItemsOptions == {Absent, Num(-1), Num(0), Num(1), Num(2)}

ItemsOptions == {Absent, Obj([type |-> Str(S_number)]), Obj([type |-> Str(S_string)])}

\* { type: 'array', maxItems, items, required }
ArrayDescriptors ==
    {ObjOf([type |-> Str(S_array), maxItems |-> m, items |-> it, required |-> rq]) :
        m \in MaxItemsOptions, it \in ItemsOptions, rq \in {Absent, Arr(<<Str(S_a)>>)}}

CoerceDescriptors == ObjectDescriptors \cup ScalarDescriptors \cup ArrayDescriptors

RawObjects ==
    {ObjOf([a |-> va, b |-> vb, title |-> vt]) :
        va \in {Absent, Str(<<"5">>), Num(7), Null},
        vb \in {Absent, Str(<<" ", "4", "2", " ">>), Str(<<"x">>)},
        vt \in {Absent, Str(<<"t">>)}}

RawOthers ==
    { Str(S_yes), Str(<<"x">>), Str(<<>>), Num(0), Bool(TRUE), Bool(FALSE), Null,
      Arr(<<>>), Arr(<<Str(S_one), Num(2)>>),
      Arr(<<Str(<<"x">>), Str(<<"7">>), Null, Str(<<" ", "4", "2", " ">>)>>),
      Obj([a |-> Obj([b |-> Str(S_true)])]) }

\* The raw data: field "a" with a value, or without an entry.
CoerceData == {Obj([a |-> x]) : x \in RawObjects \cup RawOthers} \cup {EmptyObj}

InitCoerce ==
    /\ pc = "raw"
    /\ file = None
    /\ loaded = None
    /\ renorm = None
    /\ doc = None
    /\ schema \in {ExtractorSchema(EmptyMap, [f \in {"a"} |-> d]) : d \in CoerceDescriptors}
    /\ rawData \in CoerceData
    /\ output = None
    /\ argv = None
    /\ validation = None
    /\ simpleSchema = None
    /\ reply = None
    /\ formatted = None
    /\ outputData = None
    /\ exitCode = None
    /\ llmCalls = 0
    /\ NoFetch
    /\ reconverted = None

\* validateAndStructure(rawData, schema.structure)
ValidateAndStructure ==
    /\ pc = "raw"
    /\ output' = validateAndStructure(rawData, Get(schema, "structure").v)
    /\ pc' = "structured"
    /\ UNCHANGED <<file, schema, loaded, renorm, doc, rawData, validation, cliVars, fetchVars, reconverted>>

\* convertToType(rawValue, schemaType), the call validateAndStructure and
\* convertToType itself make on a value and its descriptor
ConvertToType ==
    /\ pc = "raw"
    /\ output' = convertToType(Get(rawData, "a"), Get(schema, "structure").v["a"])
    /\ pc' = "converted"
    /\ UNCHANGED <<file, schema, loaded, renorm, doc, rawData, validation, cliVars, fetchVars, reconverted>>

\* validateBasicTypes(rawData, schema.structure): the fallback of the formatter
\* on the inputs of the coercer
ValidateBasicTypes ==
    /\ pc = "raw"
    /\ formatted' = validateBasicTypes(rawData, Get(schema, "structure"))
    /\ pc' = "basic"
    /\ UNCHANGED <<file, schema, loaded, renorm, doc, rawData, output, validation,
                   argv, simpleSchema, reply, outputData, exitCode, llmCalls, fetchVars, reconverted>>

\* convertToType applied to its own result, with the same descriptor
ConvertAgain ==
    /\ pc = "converted"
    /\ reconverted' = convertToType(output, Get(schema, "structure").v["a"])
    /\ pc' = "reconverted"
    /\ UNCHANGED <<file, schema, loaded, renorm, doc, rawData, output, validation, cliVars,
                   fetchVars>>

NextCoerce == ValidateAndStructure \/ ConvertToType \/ ValidateBasicTypes \/ ConvertAgain

SpecCoerce == InitCoerce /\ [][NextCoerce]_vars

Structured == pc = "structured"
DescriptorA == Get(schema, "structure").v["a"]
RawA == Get(rawData, "a")

\* C10: coercing a raw object against an object descriptor with properties
\* gives a fresh object whose keys are exactly the declared property names
\* that are present in the raw object or listed in the object descriptor's own
\* required list (the parent of the property descriptors); each value is the
\* coercion by the nested descriptor; undeclared raw keys never appear.
C10_ObjectProperties ==
    Structured /\ Get(DescriptorA, "type") = Str(S_object)
        /\ IsObj(Get(DescriptorA, "properties")) /\ IsObj(RawA) =>
        LET props == Get(DescriptorA, "properties").v
            keys == {p \in DOMAIN props :
                        Get(RawA, p) # Undefined \/ RequiredIncludes(DescriptorA, p)}
        IN  /\ IsObj(Get(output, "a"))
            /\ DOMAIN output.v["a"].v = keys
            /\ \A p \in keys : output.v["a"].v[p] = convertToType(Get(RawA, p), props[p])

Converted == pc = "converted"
TypeA == Get(DescriptorA, "type")
ItemsA == Get(DescriptorA, "items")
MaxItemsA == Get(DescriptorA, "maxItems")
\* The conversion of one array element: by the items descriptor when there is one.
ItemOf(x) == IF Truthy(ItemsA) THEN convertToType(x, ItemsA) ELSE x

\* C11: coercing an array of n elements against an array descriptor whose
\* maxItems is set to m (0 included) gives its first min(n, m) elements in
\* order, so never more than maxItems elements.
C11_MaxItemsTruncation ==
    Converted /\ TypeA = Str(S_array) /\ IsArr(RawA) /\ MaxItemsA # Undefined =>
        LET n == Len(RawA.v)
            k == IF n < MaxItemsA.v THEN n ELSE MaxItemsA.v
        IN  /\ IsArr(output)
            /\ Len(output.v) = k
            /\ \A i \in 1..k : output.v[i] = ItemOf(RawA.v[i])

\* C12: coercing any raw value against a number descriptor gives a number and
\* never NaN, and gives 0 whenever Number(raw value) is NaN; the same holds of
\* every element converted by a number items descriptor.
C12_NumericDefault ==
    Converted =>
        /\ TypeA = Str(S_number) =>
              /\ output.k = "num"
              /\ ToNumberJS(RawA) = NaN => output = Num(0)
        /\ TypeA = Str(S_array) /\ Get(ItemsA, "type") = Str(S_number) =>
              \A i \in 1..Len(output.v) : output.v[i].k = "num"

C12_Witness ==
    /\ Converted
    /\ TypeA = Str(S_number)
    /\ RawA = Str(S_yes)
    /\ output = Num(0)

\* C13: against an array descriptor a truthy value v that is no array gives
\* the one-element array of v, a falsy one (null, undefined, '', 0, false) gives
\* the empty array, and an array gives a prefix of itself, whole when maxItems
\* is not set; with an items descriptor every element is the conversion of the
\* element at its position by that descriptor.
C13_ArrayWrap ==
    Converted /\ TypeA = Str(S_array) =>
        /\ IsArr(output)
        /\ ~IsArr(RawA) /\ Truthy(RawA) => output = Arr(<<ItemOf(RawA)>>)
        /\ ~IsArr(RawA) /\ ~Truthy(RawA) => output = Arr(<<>>)
        /\ IsArr(RawA) =>
              /\ Len(output.v) <= Len(RawA.v)
              /\ MaxItemsA = Undefined => Len(output.v) = Len(RawA.v)
              /\ \A i \in 1..Len(output.v) : output.v[i] = ItemOf(RawA.v[i])

C13_Witness ==
    /\ Converted
    /\ TypeA = Str(S_array)
    /\ ItemsA = Obj([type |-> Str(S_number)])
    /\ RawA = Bool(TRUE)
    /\ output = Arr(<<Num(1)>>)

\* C14: a structure field without an entry in the raw data is absent from the
\* result, unless the required list of its own descriptor holds the field's
\* name; then it is present with the conversion of undefined to its type.
C14_UnextractedField ==
    Structured /\ RawA = Undefined =>
        IF RequiredIncludes(DescriptorA, "a")
        THEN /\ "a" \in DOMAIN output.v
             /\ output.v["a"] = convertToType(Undefined, DescriptorA)
        ELSE "a" \notin DOMAIN output.v

C14_Witness ==
    /\ Structured
    /\ rawData = EmptyObj
    /\ DescriptorA = Obj([type |-> Str(S_string), required |-> Arr(<<Str(S_a)>>)])
    /\ output = Obj([a |-> Str(S_undefined)])

\* C27: coercion is idempotent: converting the result of convertToType again
\* with the same descriptor returns that result, for every raw value and every
\* descriptor (string, number, boolean, array with or without items and
\* maxItems, object with or without properties, nested).
C27_CoercionIdempotent ==
    pc = "reconverted" => reconverted = output

\* C24: the fallback of the formatter follows the coercion of the core: on
\* the same raw data and structure map, validateBasicTypes gives what
\* validateAndStructure gives, for the types string, number, boolean and array.
C24_FallbackFollowsCore ==
    pc = "basic" /\ TypeA \in {Str(S_string), Str(S_number), Str(S_boolean), Str(S_array)} =>
        formatted = validateAndStructure(rawData, Get(schema, "structure").v)

(***************************************************************************)
(* The assembler and the renderer (specification SpecAssemble): a schema   *)
(* with or without structure is extracted, the result is formatted with    *)
(* the language model's help and either result is handed to                *)
(* outputStructuredData.                                                   *)
(***************************************************************************)
S_T == <<"T">>

AssembleNode == Node(<<" ", "T", " ">>, Undefined)
AssembleOutcomes == {Matched(<<>>), Matched(<<AssembleNode>>), Throw("SyntaxError")}

AssembleSelectors ==
    { [f \in {"title"} |-> SelectorOf(f)],
      [f \in {"title", "_metadata"} |-> SelectorOf(f)] }

AssembleStructures ==
    { Absent,
      Obj([title |-> D_nullable]),
      Obj([title |-> Obj([type |-> Str(S_number), nullable |-> Bool(TRUE)]),
           _metadata |-> D_nullable]),
      Obj([title |-> Obj([type |-> Str(S_array)]),
           price |-> Obj([type |-> Str(S_boolean), required |-> Arr(<<Str(KeyChars("price"))>>)])]) }

AssembleSchemas ==
    {ObjOf([selectors |-> Obj(sel), structure |-> st]) :
        sel \in AssembleSelectors, st \in AssembleStructures}

\* The options argument of outputStructuredData: left out, or given.
OutputOptions ==
    {Undefined, EmptyObj, Obj([includeMetadata |-> Bool(TRUE)]), Obj([includeMetadata |-> Bool(FALSE)])}

ReplyValues ==
    { Obj([title |-> Str(S_T), price |-> Num(1)]),
      Obj([_metadata |-> Obj([schemaVersion |-> Str(<<"9">>)]), title |-> Str(S_T)]),
      Null, Num(7), Str(<<"a", "b">>), Arr(<<Str(S_T)>>) }

\* What generateText does: it raises (no API key, no network), or returns a text.
LlmReplies ==
    {Throw("Error")} \cup
    {Str(<<JsonText(j)>>) : j \in ReplyValues} \cup
    { Str(<<Fence, Tok("json"), JsonText(Obj([title |-> Str(S_T)])), Fence>>),
      Str(<<Fence, JsonText(Obj([title |-> Str(S_T)])), Fence>>),
      Str(<<Fence, Tok("js"), JsonText(Obj([title |-> Str(S_T)])), Fence>>),
      Str(<<Tok("Here"), JsonText(Obj([title |-> Str(S_T)]))>>),
      Str(<<>>) }

InitAssemble ==
    /\ pc = "loaded"
    /\ file = None
    /\ loaded = None
    /\ renorm = None
    /\ schema \in AssembleSchemas
    /\ doc \in [Range(SelectorsOf(schema)) -> AssembleOutcomes]
    /\ rawData = None
    /\ output = None
    /\ argv \in {[options |-> o] : o \in OutputOptions}
    /\ validation = None
    /\ simpleSchema = None
    /\ reply = None
    /\ formatted = None
    /\ outputData = None
    /\ exitCode = None
    /\ llmCalls = 0
    /\ NoFetch
    /\ reconverted = None

\* structuredSchema.structure || {}
StructureOrEmpty(s) == IF Truthy(Get(s, "structure")) THEN Get(s, "structure") ELSE EmptyObj

\* formatStructuredOutput(extractedData, structuredSchema.structure || {})
FormatStructuredOutput ==
    /\ pc = "extracted"
    /\ reply' \in LlmReplies
    /\ \E now \in Timestamps :
          formatted' = formatStructuredOutput(output, StructureOrEmpty(schema), reply', now)
    /\ llmCalls' = llmCalls + 1
    /\ pc' = "formatted"
    /\ UNCHANGED <<file, schema, loaded, renorm, doc, rawData, output, validation,
                   argv, simpleSchema, outputData, exitCode, fetchVars, reconverted>>

\* outputStructuredData(data, format, savePath, options) on the formatted
\* data, or on the extracted data when nothing was formatted
OutputStructuredData ==
    /\ pc \in {"extracted", "formatted"}
    /\ outputData' = OutputData(IF pc = "formatted" THEN formatted ELSE output, argv.options)
    /\ pc' = "written"
    /\ UNCHANGED <<file, schema, loaded, renorm, doc, rawData, output, validation,
                   argv, simpleSchema, reply, formatted, exitCode, llmCalls, fetchVars, reconverted>>

NextAssemble == Extract \/ FormatStructuredOutput \/ OutputStructuredData

SpecAssemble == InitAssemble /\ [][NextAssemble]_vars

\* The _metadata the assembler computes.
OwnMetadata == {Obj([schemaVersion |-> Str(S_version), extractedAt |-> t]) : t \in Timestamps}

\* o wraps data: it has the assembler's _metadata and, apart from _metadata,
\* the keys of data with their values.
Wraps(o, data) ==
    /\ IsObj(o)
    /\ "_metadata" \in DOMAIN o.v
    /\ o.v["_metadata"] \in OwnMetadata
    /\ DOMAIN o.v \ {"_metadata"} = DOMAIN Entries(data) \ {"_metadata"}
    /\ \A n \in DOMAIN o.v \ {"_metadata"} : o.v[n] = Entries(data)[n]

\* The reply parsed as JSON, when there is a reply and it parses.
ReplyParses ==
    /\ ~IsThrow(reply)
    /\ Len(CleanedText(reply.v)) = 1
    /\ CleanedText(reply.v)[1].k = "jsontext"

\* C15: the output of extractStructuredData, with and without structure, and
\* the output of formatStructuredOutput, when the reply parses, when it does
\* not and when the language model fails, carry _metadata with schemaVersion
\* "1.0" computed by the assembler, in place of any _metadata key of the
\* wrapped data, and every other key of the wrapped data with its value.
C15_MetadataOwned ==
    /\ output # None =>
          Wraps(output, IF Truthy(Structure)
                        THEN validateAndStructure(rawData, Structure.v) ELSE rawData)
    /\ formatted # None =>
          Wraps(formatted, IF ReplyParses THEN CleanedText(reply.v)[1].v
                           ELSE validateBasicTypes(output, StructureOrEmpty(schema)))

C15_Witness ==
    /\ pc = "formatted"
    /\ ReplyParses
    /\ "_metadata" \in DOMAIN Entries(CleanedText(reply.v)[1].v)
    /\ "_metadata" \in DOMAIN rawData.v
    /\ rawData.v["_metadata"] = Str(S_T)
    /\ output.v["_metadata"] \in OwnMetadata
    /\ formatted.v["_metadata"] \in OwnMetadata
    /\ formatted.v["title"] = Str(S_T)

\* The data handed to outputStructuredData.
Rendered == IF formatted # None THEN formatted ELSE output

\* C16: with includeMetadata false the data written has the keys of the input
\* other than _metadata, each with the input's value, and the input still has
\* its _metadata; with includeMetadata true or not given the data written is
\* the input.
C16_ExclusionIsProjection ==
    pc = "written" =>
        IF Get(argv.options, "includeMetadata") = Bool(FALSE)
        THEN /\ IsObj(outputData)
             /\ DOMAIN outputData.v = DOMAIN Rendered.v \ {"_metadata"}
             /\ \A n \in DOMAIN outputData.v : outputData.v[n] = Rendered.v[n]
             /\ "_metadata" \in DOMAIN Rendered.v
        ELSE outputData = Rendered

C16_Witness ==
    /\ pc = "written"
    /\ argv.options = Obj([includeMetadata |-> Bool(FALSE)])
    /\ formatted # None
    /\ "_metadata" \in DOMAIN formatted.v
    /\ outputData = Obj([title |-> Str(S_T), price |-> Num(1)])

\* generateText raised, or the cleaned text of its reply is no JSON.
LlmFailed == IsThrow(reply) \/ IsThrow(JsonParse(CleanedText(reply.v)))

\* C30: when the language model fails or its reply is no JSON, the formatted
\* output has for every structure field (other than _metadata, which the
\* assembler owns) what the core coercer left in the extracted data: a null
\* field is null, a field left out is left out, a coerced value is unchanged.
C30_FallbackKeepsCoerced ==
    pc = "formatted" /\ LlmFailed /\ Truthy(Get(schema, "structure")) =>
        /\ ~IsThrow(formatted)
        /\ \A f \in DOMAIN Get(schema, "structure").v \ {"_metadata"} :
              GetProp(formatted, f) = GetProp(output, f)

(***************************************************************************)
(* The scrape and test commands (specification SpecCli).  A handler runs   *)
(* from its arguments to its end in one step; what the network and the     *)
(* language model do is chosen in that step; doc is the page the URL       *)
(* serves when the fetch succeeds.  outputData is the data or    *)
(* the text handed to console.log or writeFile, None when nothing is       *)
(* written; exitCode is None when the handler returns without              *)
(* process.exit.                                                           *)
(***************************************************************************)
S_httpX == <<"h", "t", "t", "p", ":", "/", "/", "x">>

CliArgs ==
    {[command |-> "scrape", url |-> u, schema |-> sn, structured |-> st,
      llmOutput |-> lo, includeMetadata |-> im] :
        u \in {Str(<<>>), Str(S_httpX)},
        sn \in {Undefined} \cup {Str(n) : n \in SchemaNames},
        st \in BOOLEAN, lo \in BOOLEAN, im \in BOOLEAN}
    \cup
    {[command |-> "test", url |-> u, schema |-> Str(n), structured |-> FALSE,
      llmOutput |-> FALSE, includeMetadata |-> TRUE] :
        u \in {Str(<<>>), Str(S_httpX)}, n \in SchemaNames}

CliFiles ==
    { FileMissing, FileUnreadable, FileUnparseable,
      FileOf(Null),
      FileOf(Obj([title |-> SelectorOf("title")])),
      FileOf(ExtractorSchema([f \in {"title"} |-> SelectorOf(f)], [title |-> D_nullable])) }

\* The page at the URL, given by what its selectors match.
CliDocs ==
    {[sel \in {SelectorOf("title")} |-> o] : o \in {Matched(<<>>), Matched(<<AssembleNode>>)}}

CliReplies ==
    { Throw("Error"),
      Str(<<JsonText(Obj([title |-> Str(S_T)]))>>),
      Str(<<Tok("Here"), JsonText(Obj([title |-> Str(S_T)]))>>) }

InitCli ==
    /\ pc = "start"
    /\ file \in CliFiles
    /\ schema = None
    /\ loaded = None
    /\ renorm = None
    /\ doc \in CliDocs
    /\ rawData = None
    /\ output = None
    /\ argv \in CliArgs
    /\ validation = None
    /\ simpleSchema = None
    /\ reply = None
    /\ formatted = None
    /\ outputData = None
    /\ exitCode = None
    /\ llmCalls = 0
    /\ NoFetch
    /\ reconverted = None

\* What a handler has computed when it has run no step.
Idle ==
    [loaded |-> None, simpleSchema |-> None, rawData |-> None, output |-> None,
     reply |-> None, formatted |-> None, outputData |-> None, exitCode |-> None,
     llmCalls |-> 0]

\* process.exit(1)
Exit(r) == [r EXCEPT !.exitCode = Num(1)]

\* formattedData of outputFormattedData(data, format, savePath): the text
\* itself, laid out anew when it is JSON
outputFormattedData(data) == data

\* loadStructuredSchema has returned or raised ld; when it returned,
\* extractDataWithStructuredSchema(html, structuredSchema) follows
Extracted1(ld, d, now) ==
    IF IsThrow(ld) THEN [Idle EXCEPT !.loaded = ld]
    ELSE [Idle EXCEPT !.loaded = ld,
                      !.rawData = ExtractRaw(SelectorsOf(ld), d),
                      !.output = StructuredOutput(ExtractRaw(SelectorsOf(ld), d), ld, now)]

\* processWithGemini or formatWithGemini, then outputFormattedData
LlmThenOutput(r, llm) ==
    IF IsThrow(llm) THEN Exit([r EXCEPT !.reply = llm, !.llmCalls = @ + 1])
    ELSE [r EXCEPT !.reply = llm, !.llmCalls = @ + 1,
                   !.outputData = outputFormattedData(llm)]

\* The scrape handler with --structured, from the schema load and the
\* extraction r1 on.
ScrapeStructuredOutput(a, r1, llm, now2) ==
    IF IsThrow(r1.loaded) THEN Exit(r1)
    ELSE IF a.llmOutput THEN LlmThenOutput(r1, llm)
    ELSE LET fm == formatStructuredOutput(r1.output, StructureOrEmpty(r1.loaded), llm, now2)
         IN  IF IsThrow(fm) THEN Exit([r1 EXCEPT !.reply = llm, !.llmCalls = @ + 1])
             ELSE [r1 EXCEPT !.reply = llm, !.formatted = fm, !.llmCalls = @ + 1,
                             !.outputData = OutputData(fm,
                                 Obj([includeMetadata |-> Bool(a.includeMetadata # FALSE)]))]

\* The scrape handler with --structured.
\* fetched: fetchHTML returns the page; it raises otherwise.
ScrapeStructuredRun(a, f, fetched, d, llm, now1, now2) ==
    IF ~Truthy(a.url) \/ ~fetched \/ ~Truthy(a.schema) THEN Exit(Idle)
    ELSE ScrapeStructuredOutput(a, Extracted1(loadStructuredSchema(a.schema.v, f), d, now1),
                                llm, now2)

\* The scrape handler without --structured, from the try block's schema load
\* and extraction r1 on: when the try block raises, the schema is loaded with
\* loadSchema and the simple extraction runs.
ScrapeTraditionalOutput(a, f, r1, llm1, llm2) ==
    IF ~IsThrow(r1.loaded) /\ ~IsThrow(llm1) THEN LlmThenOutput(r1, llm1)
    ELSE LET simple == loadSchema(a.schema.v, f)
             r2 == [r1 EXCEPT !.reply = IF IsThrow(r1.loaded) THEN None ELSE llm1,
                              !.llmCalls = IF IsThrow(r1.loaded) THEN 0 ELSE 1,
                              !.simpleSchema = simple]
         IN  IF IsThrow(simple) THEN Exit(r2)
             ELSE LlmThenOutput(r2, llm2)

\* The scrape handler without --structured: the structured schema is tried
\* first.
ScrapeTraditionalRun(a, f, fetched, d, llm1, llm2, now) ==
    IF ~Truthy(a.url) \/ ~fetched THEN Exit(Idle)
    ELSE IF ~Truthy(a.schema) THEN LlmThenOutput(Idle, llm2)
    ELSE ScrapeTraditionalOutput(a, f, Extracted1(loadStructuredSchema(a.schema.v, f), d, now),
                                 llm1, llm2)

\* The test handler, from the schema load and the extraction r1 on.
TestOutput(r1) ==
    IF IsThrow(r1.loaded) THEN Exit(r1)
    ELSE [r1 EXCEPT !.outputData =
             OutputData(r1.output, Obj([includeMetadata |-> Bool(TRUE)]))]

\* The test handler.
TestRun(a, f, fetched, d, now) ==
    IF ~Truthy(a.url) \/ ~fetched THEN Exit(Idle)
    ELSE TestOutput(Extracted1(loadStructuredSchema(a.schema.v, f), d, now))

\* The handler ends having computed r.
Done(r) ==
    /\ loaded' = r.loaded
    /\ simpleSchema' = r.simpleSchema
    /\ rawData' = r.rawData
    /\ output' = r.output
    /\ reply' = r.reply
    /\ formatted' = r.formatted
    /\ outputData' = r.outputData
    /\ exitCode' = r.exitCode
    /\ llmCalls' = r.llmCalls
    /\ pc' = "done"
    /\ UNCHANGED <<file, schema, renorm, doc, validation, argv, fetchVars, reconverted>>

ScrapeStructured ==
    /\ pc = "start"
    /\ argv.command = "scrape"
    /\ argv.structured
    /\ \E fetched \in BOOLEAN, llm \in CliReplies, now1 \in Timestamps, now2 \in Timestamps :
          \E r \in {ScrapeStructuredRun(argv, file, fetched, doc, llm, now1, now2)} : Done(r)

ScrapeTraditional ==
    /\ pc = "start"
    /\ argv.command = "scrape"
    /\ ~argv.structured
    /\ \E fetched \in BOOLEAN, llm1 \in CliReplies, llm2 \in CliReplies, now \in Timestamps :
          \E r \in {ScrapeTraditionalRun(argv, file, fetched, doc, llm1, llm2, now)} : Done(r)

Test ==
    /\ pc = "start"
    /\ argv.command = "test"
    /\ \E fetched \in BOOLEAN, now \in Timestamps :
          \E r \in {TestRun(argv, file, fetched, doc, now)} : Done(r)

NextCli == ScrapeStructured \/ ScrapeTraditional \/ Test

SpecCli == InitCli /\ [][NextCli]_vars

S_notFound == <<"n", "o", "t", " ", "f", "o", "u", "n", "d">>
S_invalid == <<"i", "n", "v", "a", "l", "i", "d">>
S_schemaFile == <<"s", "c", "h", "e", "m", "a", " ", "f", "i", "l", "e">>

\* x is an error whose message says the schema was not found.
IsNotFoundError(x) ==
    IsThrow(x) /\ "message" \in DOMAIN x /\ Includes(ToLowerCase(x.message), S_notFound)

\* x is an error whose message says the schema file is invalid.
IsInvalidSchemaError(x) ==
    /\ IsThrow(x)
    /\ "message" \in DOMAIN x
    /\ Includes(ToLowerCase(x.message), S_invalid)
    /\ Includes(ToLowerCase(x.message), S_schemaFile)

\* What C19 says of the result x of a loader on the schema file.
LoaderErrors(x) ==
    /\ IsNotFoundError(x) <=> file = FileMissing
    /\ file \in {FileUnreadable, FileUnparseable} => IsInvalidSchemaError(x)
    /\ IsThrow(x) => Includes(x.message, argv.schema.v)

\* C19: loadStructuredSchema and loadSchema raise a 'schema not found' error
\* exactly when the schema file is missing and an 'invalid schema' error when
\* it exists and cannot be parsed, both messages holding the schema name; in
\* scrape and test an error raised by a schema loader ends the invocation
\* with a failure exit and nothing is written.
C19_SchemaLoadErrors ==
    pc = "done" =>
        /\ loaded # None => LoaderErrors(loaded)
        /\ simpleSchema # None => LoaderErrors(simpleSchema)
        /\ IsThrow(loaded) \/ IsThrow(simpleSchema) =>
              exitCode = Num(1) /\ outputData = None

\* C25: in a scrape without --structured and with --schema, the simple-schema
\* path (loadSchema, the simple extraction and its call of the language model)
\* is entered only when loadStructuredSchema raised; once it has returned, no
\* later failure starts the simple-schema path, so that the language model is
\* called at most once in an invocation.
C25_SimplePathOnlyAfterLoadFailure ==
    pc = "done" /\ argv.command = "scrape" /\ ~argv.structured /\ Truthy(argv.schema) =>
        /\ simpleSchema # None => IsThrow(loaded)
        /\ llmCalls <= 1

(***************************************************************************)
(* fetchHTML(url, options) (specification SpecFetch): a call runs its loop *)
(* one request or one wait at a step; what axios.get does at a request is  *)
(* chosen at that step.                                                    *)
(***************************************************************************)
\* The largest retry option of a call.
MaxRetry == 3

S_FailedToFetch == <<"F", "a", "i", "l", "e", "d", " ", "t", "o", " ", "f", "e", "t", "c", "h", " ", "H", "T", "M", "L", " ", "f", "r", "o", "m", " ">>
S_after == <<" ", "a", "f", "t", "e", "r", " ">>
S_attempts == <<" ", "a", "t", "t", "e", "m", "p", "t", "s", ":", " ">>
S_timeout == <<"t", "i", "m", "e", "o", "u", "t">>
S_reset == <<"r", "e", "s", "e", "t">>

\* options: absent, or { retry } with retry undefined, NaN or a number
FetchArgs ==
    {[url |-> Str(S_httpX), options |-> o] :
        o \in {Undefined} \cup {Obj([retry |-> r]) :
                                   r \in {Undefined, NaN} \cup {Num(n) : n \in -1..MaxRetry}}}

\* options?.retry
RetryOption(options) == IF options = Undefined THEN Undefined ELSE Get(options, "retry")

\* What axios.get(url) does: it resolves to a response with data, or it
\* rejects with an Error or with a value that is no Error.
Resolved(data) == [k |-> "resolved", v |-> data]
Rejected(error) == [k |-> "rejected", v |-> error]
RequestOutcomes ==
    {Resolved(Str(<<"<", "p", ">">>)), Rejected(Error(S_timeout)), Rejected(Str(S_reset))}

\* error instanceof Error ? error : new Error(String(error))
AsError(error) == IF IsThrow(error) THEN error ELSE Error(ToStringJS(error))

RECURSIVE Pow2(_)
\* Math.pow(2, n)
Pow2(n) == IF n = 0 THEN 1 ELSE 2 * Pow2(n - 1)

\* The message of the error raised after the loop.
FailedMessage(url, n, last) ==
    S_FailedToFetch \o url \o S_after \o IntChars(n + 1) \o S_attempts
        \o (IF last = Null THEN S_undefined ELSE last.message)

InitFetch ==
    /\ pc = "call"
    /\ file = None
    /\ schema = None
    /\ loaded = None
    /\ renorm = None
    /\ doc = None
    /\ rawData = None
    /\ output = None
    /\ argv = None
    /\ validation = None
    /\ simpleSchema = None
    /\ reply = None
    /\ formatted = None
    /\ outputData = None
    /\ exitCode = None
    /\ llmCalls = 0
    /\ fetchArgs \in FetchArgs
    /\ retries = None
    /\ attempt = None
    /\ lastError = None
    /\ requests = None
    /\ waits = None
    /\ response = None
    /\ reconverted = None

\* The call up to the loop: retries = options?.retry || 0, lastError = null,
\* attempt = 0.
FetchHTML ==
    /\ pc = "call"
    /\ retries' = IF Truthy(RetryOption(fetchArgs.options)) THEN RetryOption(fetchArgs.options)
                  ELSE Num(0)
    /\ attempt' = 0
    /\ lastError' = Null
    /\ requests' = <<>>
    /\ waits' = <<>>
    /\ pc' = "loop"
    /\ UNCHANGED <<file, schema, loaded, renorm, doc, rawData, output, validation, cliVars,
                   fetchArgs, response, reconverted>>

\* One pass of the loop body up to its await: the request, and on success the
\* return of response.data.
Request ==
    /\ pc = "loop"
    /\ attempt <= retries.v
    /\ \E outcome \in RequestOutcomes :
          /\ requests' = Append(requests, outcome)
          /\ IF outcome.k = "resolved"
             THEN /\ response' = outcome.v
                  /\ pc' = "returned"
                  /\ UNCHANGED <<lastError, attempt>>
             ELSE /\ lastError' = AsError(outcome.v)
                  /\ IF attempt < retries.v
                     THEN pc' = "waiting" /\ attempt' = attempt
                     ELSE pc' = "loop" /\ attempt' = attempt + 1
                  /\ UNCHANGED response
    /\ UNCHANGED <<file, schema, loaded, renorm, doc, rawData, output, validation, cliVars,
                   fetchArgs, retries, waits, reconverted>>

\* The timer of the backoff fires: setTimeout(resolve, Math.pow(2, attempt) * 1000).
Wait ==
    /\ pc = "waiting"
    /\ waits' = Append(waits, Pow2(attempt) * 1000)
    /\ attempt' = attempt + 1
    /\ pc' = "loop"
    /\ UNCHANGED <<file, schema, loaded, renorm, doc, rawData, output, validation, cliVars,
                   fetchArgs, retries, lastError, requests, response, reconverted>>

\* The loop has ended: throw new Error(...).
ThrowAfterRetries ==
    /\ pc = "loop"
    /\ ~(attempt <= retries.v)
    /\ response' = Error(FailedMessage(fetchArgs.url.v, retries.v, lastError))
    /\ pc' = "thrown"
    /\ UNCHANGED <<file, schema, loaded, renorm, doc, rawData, output, validation, cliVars,
                   fetchArgs, retries, attempt, lastError, requests, waits, reconverted>>

NextFetch == FetchHTML \/ Request \/ Wait \/ ThrowAfterRetries

SpecFetch == InitFetch /\ [][NextFetch]_vars

\* The request numbered i was rejected.
Failed(i) == requests[i].k = "rejected"

\* C26: fetchHTML with the numeric retry option r makes at least one request
\* and at most r + 1; a successful response is returned at once, with no
\* request after it; it waits 2^attempt seconds after each failed attempt that
\* has a retry left and never after the last attempt; it raises only when every
\* attempt failed, with the message of the last attempt's error.
C26_FetchRetry ==
    pc \in {"returned", "thrown"} /\ RetryOption(fetchArgs.options).k = "num" =>
        LET r == RetryOption(fetchArgs.options).v
            n == Len(requests)
        IN  /\ n >= 1
            /\ n <= r + 1
            /\ \A i \in 1..(n - 1) : Failed(i)
            /\ pc = "returned" => ~Failed(n) /\ response = requests[n].v
            /\ Len(waits) = Cardinality({i \in 1..n : Failed(i) /\ i <= r})
            /\ \A i \in 1..Len(waits) : waits[i] = Pow2(i - 1) * 1000
            /\ pc = "thrown" =>
                  /\ n = r + 1
                  /\ Failed(n)
                  /\ response = Error(FailedMessage(fetchArgs.url.v, r,
                                                    AsError(requests[n].v)))
====
